---------------------------- MODULE Spec2Model ----------------------------
(***************************************************************************)
(* Gear Geometry Lab: the dimension calculator, the formatter, the rack    *)
(* and external-gear profile builders, the DXF exporter and the input      *)
(* reader of the page script.                                              *)
(*                                                                         *)
(* Numbers.  A JavaScript number is a record [k, v]: k = "fin" with the    *)
(* value v, k = "nan", or k = "inf" with the sign v.  Lengths are held in  *)
(* fixed point, one unit = 1e-6 of the active length unit, so that every   *)
(* length constant of the source is an integer: 1e-6 = 1, 0.0001 = 100,    *)
(* 0.001 = 1000.  Counts (teeth, samples, loop indices) are held in units  *)
(* of one.  Angles are held in whole degrees; the trigonometric functions  *)
(* are tables over the angles the model draws.  Math.PI is 22/7.           *)
(***************************************************************************)
EXTENDS Integers, Sequences, FiniteSets, TLC

--------------------------------------------------------------------------
(* JavaScript number arithmetic (IEEE-754 special values kept) *)

Fin(n) == [k |-> "fin", v |-> n]
NaN == [k |-> "nan", v |-> 0]
PInf == [k |-> "inf", v |-> 1]
NInf == [k |-> "inf", v |-> -1]

IsNaN(a) == a.k = "nan"
IsFin(a) == a.k = "fin"
IsInf(a) == a.k = "inf"

Sgn(n) == IF n > 0 THEN 1 ELSE IF n < 0 THEN -1 ELSE 0
Abs(n) == IF n < 0 THEN -n ELSE n
InfOf(s) == IF s >= 0 THEN PInf ELSE NInf

\* n/d rounded to the nearest integer (d > 0), the fixed-point rounding
RDiv(n, d) == (2 * n + d) \div (2 * d)
\* ceiling of n/d for d > 0
CeilDiv(n, d) == -((-n) \div d)

JNeg(a) == IF IsNaN(a) THEN NaN ELSE [k |-> a.k, v |-> -a.v]

JAdd(a, b) ==
  IF IsNaN(a) \/ IsNaN(b) THEN NaN
  ELSE IF IsInf(a) /\ IsInf(b) THEN (IF a.v = b.v THEN a ELSE NaN)
  ELSE IF IsInf(a) THEN a
  ELSE IF IsInf(b) THEN b
  ELSE Fin(a.v + b.v)

JSub(a, b) == JAdd(a, JNeg(b))

\* a * n for a plain integer n (a loop index, the literal 2)
JMulInt(a, n) ==
  IF IsNaN(a) THEN NaN
  ELSE IF IsInf(a) THEN (IF n = 0 THEN NaN ELSE InfOf(a.v * Sgn(n)))
  ELSE Fin(a.v * n)

\* a * (num/den) for a literal num/den with den > 0 (1.25 = 5/4, 1.2 = 6/5, PI = 22/7)
JMulRat(a, num, den) ==
  IF IsNaN(a) THEN NaN
  ELSE IF IsInf(a) THEN (IF num = 0 THEN NaN ELSE InfOf(a.v * Sgn(num)))
  ELSE Fin(RDiv(a.v * num, den))

\* a / (num/den) for a table value num/den with den > 0 (Math.tan(phi))
JDivRat(a, num, den) ==
  IF IsNaN(a) THEN NaN
  ELSE IF num = 0 THEN (IF IsFin(a) /\ a.v = 0 THEN NaN ELSE InfOf(a.v))
  ELSE IF IsInf(a) THEN InfOf(a.v * Sgn(num))
  ELSE Fin(Sgn(num) * RDiv(a.v * den, Abs(num)))

\* a / n: a length a divided by a count n (both JavaScript numbers)
JDivCount(a, n) ==
  IF IsNaN(a) \/ IsNaN(n) THEN NaN
  ELSE IF IsInf(a) /\ IsInf(n) THEN NaN
  ELSE IF IsInf(a) THEN InfOf(a.v * (IF n.v < 0 THEN -1 ELSE 1))
  ELSE IF IsInf(n) THEN Fin(0)
  ELSE IF n.v = 0 THEN (IF a.v = 0 THEN NaN ELSE InfOf(a.v))
  ELSE Fin(Sgn(n.v) * RDiv(a.v, Abs(n.v)))

\* Math.ceil(a / b) for two lengths: a count
JCeilRatio(a, b) ==
  IF IsNaN(a) \/ IsNaN(b) THEN NaN
  ELSE IF IsInf(a) /\ IsInf(b) THEN NaN
  ELSE IF IsInf(a) THEN InfOf(a.v * (IF b.v < 0 THEN -1 ELSE 1))
  ELSE IF IsInf(b) THEN Fin(0)
  ELSE IF b.v = 0 THEN (IF a.v = 0 THEN NaN ELSE InfOf(a.v))
  ELSE IF b.v > 0 THEN Fin(CeilDiv(a.v, b.v))
  ELSE Fin(CeilDiv(-a.v, -b.v))

\* the comparisons of JavaScript: false as soon as an operand is NaN
JLt(a, b) ==
  /\ ~IsNaN(a) /\ ~IsNaN(b)
  /\ IF IsInf(a) THEN a.v < 0 /\ ~(IsInf(b) /\ b.v < 0)
     ELSE IF IsInf(b) THEN b.v > 0
     ELSE a.v < b.v
JEq(a, b) == ~IsNaN(a) /\ ~IsNaN(b) /\ a = b
JLe(a, b) == JLt(a, b) \/ JEq(a, b)
JGt(a, b) == JLt(b, a)
JGe(a, b) == JLe(b, a)

\* Math.max / Math.min: NaN as soon as an argument is NaN
JMax(a, b) == IF IsNaN(a) \/ IsNaN(b) THEN NaN ELSE IF JLt(a, b) THEN b ELSE a
JMin(a, b) == IF IsNaN(a) \/ IsNaN(b) THEN NaN ELSE IF JLt(b, a) THEN b ELSE a
JAbs(a) == IF IsFin(a) THEN Fin(Abs(a.v)) ELSE IF IsInf(a) THEN PInf ELSE NaN

\* the truthiness of a number: false for 0 and NaN
Truthy(a) == ~IsNaN(a) /\ ~(IsFin(a) /\ a.v = 0)


--------------------------------------------------------------------------
(* Length constants of the source, in units of 1e-6 *)

\* Math.max(0.001, D - 2*b): the floor of the root / tip diameter
DrFloor == 1000
\* abs >= 100 and abs >= 10: the magnitudes at which fmt drops a decimal
FmtHundred == 100000000
FmtTen == 10000000
\* the fallback module of a rack, 2
RackFallbackModule == 2000000
\* the dedup tolerance of the rack outline, 1e-6
DedupTol == 1
\* Math.max(0.0001, b * 1.2): the floor of the backing depth
BackingFloor == 100
\* cx = 600, cy = 380: the centre update() draws at
CenterX == 600000000
CenterY == 380000000
\* Math.max(12, ...) and the default of 48 samples
MinSamples == 12
DefaultSamples == 48

--------------------------------------------------------------------------
(* Trigonometric tables over the pressure angles the model draws (degrees) *)

Degrees == {0, 20, 45, 135}
\* Math.tan(phi) as num/den
TanNum(deg) == CASE deg = 0 -> 0 [] deg = 20 -> 4 [] deg = 45 -> 1 [] deg = 135 -> -1
TanDen(deg) == CASE deg = 0 -> 1 [] deg = 20 -> 11 [] deg = 45 -> 1 [] deg = 135 -> 1
\* Math.cos(phi) as num/den
CosNum(deg) == CASE deg = 0 -> 1 [] deg = 20 -> 47 [] deg = 45 -> 7 [] deg = 135 -> -7
CosDen(deg) == CASE deg = 0 -> 1 [] deg = 20 -> 50 [] deg = 45 -> 10 [] deg = 135 -> 10

\* h / Math.tan(phi)
JDivTan(h, phi) ==
  IF ~IsFin(phi) THEN NaN ELSE JDivRat(h, TanNum(phi.v), TanDen(phi.v))
\* D * Math.cos(phi)
JMulCos(D, phi) ==
  IF ~IsFin(phi) THEN NaN ELSE JMulRat(D, CosNum(phi.v), CosDen(phi.v))

--------------------------------------------------------------------------
(* The text of an input field: empty, not a number, or the decimal n/d.    *)
(* A length field holds n in units of 1e-6 with d = 1; the fields are      *)
(* numeric inputs, whose text never reads as an infinity.                  *)

EmptyText == [t |-> "empty", n |-> 0, d |-> 1]
JunkText == [t |-> "junk", n |-> 0, d |-> 1]
NumText(n, d) == [t |-> "num", n |-> n, d |-> d]

\* Number(text) of a field whose text is a whole number of its unit
NumberOf(text) ==
  IF text.t = "junk" THEN NaN
  ELSE IF text.t = "empty" THEN Fin(0)
  ELSE Fin(text.n \div text.d)

\* Math.max(12, Math.floor(Number(text) || 48))
ReadSamplesNoMin(text) ==
  LET falsy == text.t # "num" \/ text.n = 0
  IN IF falsy THEN Fin(DefaultSamples) ELSE Fin(text.n \div text.d)
ReadSamples(text) ==
  LET falsy == text.t # "num" \/ text.n = 0
      floored == IF falsy THEN Fin(DefaultSamples) ELSE Fin(text.n \div text.d)
  IN JMax(Fin(MinSamples), floored)

readInputs(f) ==
  [ type |-> f.type,
    units |-> f.units,
    N |-> NumberOf(f.teeth),
    D |-> NumberOf(f.pitchDiameter),
    phi |-> NumberOf(f.pressureAngle),
    backlash |-> NumberOf(f.backlash),
    addendum |-> NumberOf(f.addendum),
    dedendum |-> NumberOf(f.dedendum),
    rackLength |-> NumberOf(f.rackLength),
    samples |-> ReadSamples(f.samples) ]

--------------------------------------------------------------------------
(* computeGear *)

ThicknessNoClamp(s0, backlash) == JSub(s0, backlash)
Thickness(s0, backlash) == JMax(Fin(0), JSub(s0, backlash))

RootFloorNone(D, h) == JSub(D, JMulInt(h, 2))
RootFloor(D, h) == JMax(Fin(DrFloor), JSub(D, JMulInt(h, 2)))

ExportedDo(type, Do_ext, Dr_int_root) ==
  IF type = "internal" THEN Dr_int_root ELSE Do_ext
ExportedDr(type, Dr_ext, Do_int_tip) ==
  IF type = "internal" THEN Do_int_tip ELSE Dr_ext

computeGear(inp) ==
  LET m == IF inp.type = "rack"
           THEN (IF IsFin(inp.D) /\ IsFin(inp.N) /\ inp.N.v > 0
                 THEN JDivCount(inp.D, inp.N) ELSE Fin(RackFallbackModule))
           ELSE JDivCount(inp.D, inp.N)
      p == JMulRat(m, 22, 7)
      a == IF JGt(inp.addendum, Fin(0)) THEN inp.addendum ELSE m
      b == IF JGt(inp.dedendum, Fin(0)) THEN inp.dedendum ELSE JMulRat(m, 5, 4)
      s0 == JMulRat(p, 1, 2)
      s == Thickness(s0, inp.backlash)
      Db == IF inp.type = "rack" THEN Fin(0) ELSE JMulCos(inp.D, inp.phi)
      Do_ext == JAdd(inp.D, JMulInt(a, 2))
      Dr_ext == RootFloor(inp.D, b)
      Do_int_tip == RootFloor(inp.D, a)
      Dr_int_root == JAdd(inp.D, JMulInt(b, 2))
  IN [ type |-> inp.type, units |-> inp.units, N |-> inp.N, D |-> inp.D,
       m |-> m, p |-> p, a |-> a, b |-> b,
       phi |-> inp.phi, phiDeg |-> inp.phi,
       backlash |-> inp.backlash, s0 |-> s0, s |-> s, Db |-> Db,
       Do |-> ExportedDo(inp.type, Do_ext, Dr_int_root),
       Dr |-> ExportedDr(inp.type, Dr_ext, Do_int_tip),
       Do_ext |-> Do_ext, Dr_ext |-> Dr_ext,
       Dt_int |-> Do_int_tip, Dro_int |-> Dr_int_root,
       rackLength |-> inp.rackLength ]

--------------------------------------------------------------------------
(* fmt: the string it returns.  "fixed" is a decimal with d digits after   *)
(* the point, "dash" the placeholder, "NaN" / "Infinity" / "-Infinity"     *)
(* what Number.prototype.toFixed prints for a non-finite number.           *)

Placeholder == [s |-> "dash", d |-> 0, v |-> 0]
FixedText(d, v) == [s |-> "fixed", d |-> d, v |-> v]
\* x.toFixed(d) of a number x already rounded to d decimals
toFixed(x, d) ==
  IF IsNaN(x) THEN [s |-> "NaN", d |-> 0, v |-> 0]
  ELSE IF IsInf(x) THEN [s |-> (IF x.v > 0 THEN "Infinity" ELSE "-Infinity"), d |-> 0, v |-> 0]
  ELSE FixedText(d, x.v)

\* 10^(6-d): the weight in units of the last of d decimals
DecimalUnit(d) == CASE d = 2 -> 10000 [] d = 3 -> 1000 [] d = 4 -> 100
\* Math.round(val * 10^d) / 10^d
RoundDecimals(val, d) ==
  IF IsFin(val) THEN Fin(RDiv(val.v, DecimalUnit(d)) * DecimalUnit(d)) ELSE val

fmt(val, unit) ==
  LET abs == JAbs(val)
      d == IF JGe(abs, Fin(FmtHundred)) THEN 2 ELSE IF JGe(abs, Fin(FmtTen)) THEN 3 ELSE 4
  IN IF unit = "deg" THEN toFixed(val, 1)
     ELSE IF IsFin(val) THEN toFixed(RoundDecimals(val, d), d) ELSE Placeholder


--------------------------------------------------------------------------
(* The page: the input fields and what update() derives from them *)

VARIABLES
  fields,   \* the text (or selected option) of every input the script reads
  inp,      \* what readInputs() returned in the last update()
  c,        \* what computeGear(inp) returned in the last update()
  dims,     \* the values update() formatted into the dimension block
  rpc,      \* buildRackPath: "idle", "loop" (at the loop test), "done"
  ri,       \* buildRackPath: the loop index i
  top,      \* buildRackPath: the tooth outline built so far
  pts,      \* buildRackPath: the points returned
  lastPolylines,  \* window.__lastPolylines, what the DXF download exports
  dxfOut,   \* the lines of the last DXF text produced (none: empty)
  epc,      \* buildExternalGearPath: "idle", "loop" (at the test k < N), "done"
  ek,       \* buildExternalGearPath: the loop index k
  toothPts, \* buildExternalGearPath: the outline of the one base tooth
  polylines, \* buildExternalGearPath: the tooth outlines pushed so far
  camera,   \* the pan offset x, y (pixels) and the zoom k (thousandths)
  isPanning, \* a drag of the viewport is under way
  panStart, \* where the drag began and the pan offset it began from, or none
  autoFit,  \* the next update() fits the drawing to the view box
  zooms     \* the number of wheel and zoom button events followed so far

appVars == <<fields, inp, c, dims>>
rackVars == <<rpc, ri, top, pts>>
dxfVars == <<lastPolylines, dxfOut>>
extVars == <<epc, ek, toothPts, polylines>>
viewVars == <<camera, isPanning, panStart, autoFit, zooms>>
vars == << fields, inp, c, dims, rpc, ri, top, pts, lastPolylines, dxfOut,
           epc, ek, toothPts, polylines, camera, isPanning, panStart,
           autoFit, zooms >>

\* camera.k = 1, in thousandths
CameraOne == 1000
\* panStart = null, or { x, y, ox, oy }
NoPanStart == [null |-> TRUE, x |-> 0, y |-> 0, ox |-> 0, oy |-> 0]
PanStart(x, y, ox, oy) == [null |-> FALSE, x |-> x, y |-> y, ox |-> ox, oy |-> oy]
\* the view state the script declares
ViewQuiet ==
  /\ camera = [x |-> 0, y |-> 0, k |-> CameraOne]
  /\ isPanning = FALSE
  /\ panStart = NoPanStart
  /\ autoFit = TRUE
  /\ zooms = 0



Types == {"external", "internal", "rack"}
Units == {"mm", "in"}

\* the texts the model types into each field
TeethTexts == {EmptyText, NumText(2, 1), NumText(4, 1)}
DiameterTexts == {EmptyText, NumText(56, 1), NumText(-56, 1), NumText(8000, 1)}
AngleTexts == {JunkText, NumText(20, 1)}
BacklashTexts == {EmptyText, NumText(30, 1)}
AddendumTexts == {EmptyText, NumText(30, 1)}
DedendumTexts == {EmptyText, NumText(5, 1)}
RackLengthTexts == {NumText(200, 1)}
SamplesTexts ==
  { EmptyText, JunkText, NumText(0, 1), NumText(-5, 1), NumText(25, 2),
    NumText(201, 2) }

FieldTexts(id) ==
  CASE id = "teeth" -> TeethTexts
    [] id = "pitchDiameter" -> DiameterTexts
    [] id = "pressureAngle" -> AngleTexts
    [] id = "backlash" -> BacklashTexts
    [] id = "addendum" -> AddendumTexts
    [] id = "dedendum" -> DedendumTexts
    [] id = "rackLength" -> RackLengthTexts
    [] id = "samples" -> SamplesTexts

\* the ids bind() listens to whose element is a text input
TextFieldIds ==
  { "teeth", "pitchDiameter", "pressureAngle", "backlash", "addendum",
    "dedendum", "rackLength", "samples" }

Line(label, unit, val) == [label |-> label, unit |-> unit, val |-> val, text |-> fmt(val, unit)]

\* c.thickness: computeGear returns no such property, the value is undefined
\* (Math.abs(undefined) is NaN, Number.isFinite(undefined) is false)
Undefined == NaN

\* the values update() hands to fmt for the dimension block, in order
dimLines(i, cc) ==
  LET unit == i.units
      head == IF i.type # "rack" THEN <<Line("D", unit, cc.D)>> ELSE <<>>
      mid == << Line("phiDeg", "deg", cc.phiDeg), Line("m", unit, cc.m),
                Line("p", unit, cc.p), Line("s0", unit, cc.s0),
                Line("backlash", unit, cc.backlash), Line("s", unit, cc.s),
                Line("thickness", unit, Undefined) >>
      tail == IF i.type = "rack"
              THEN << Line("rackLength", unit, cc.rackLength), Line("a", unit, cc.a),
                      Line("b", unit, cc.b), Line("a+b", unit, JAdd(cc.a, cc.b)) >>
              ELSE << Line("a", unit, cc.a), Line("b", unit, cc.b),
                      Line("Do", unit, cc.Do), Line("Dr", unit, cc.Dr),
                      Line("Db", unit, cc.Db) >>
  IN head \o mid \o tail

\* update(): read the fields, derive the dimensions, format them
Updated(f) ==
  LET i == readInputs(f)
      cc == computeGear(i)
  IN /\ inp' = i
     /\ c' = cc
     /\ dims' = dimLines(i, cc)
     /\ UNCHANGED <<rackVars, dxfVars, extVars, viewVars>>

Init ==
  /\ fields \in [ type : Types, units : Units, teeth : TeethTexts,
                  pitchDiameter : DiameterTexts, pressureAngle : AngleTexts,
                  backlash : BacklashTexts, addendum : AddendumTexts,
                  dedendum : DedendumTexts, rackLength : RackLengthTexts,
                  samples : SamplesTexts ]
  /\ inp = readInputs(fields)
  /\ c = computeGear(inp)
  /\ dims = dimLines(inp, c)
  /\ rpc = "idle" /\ ri = -1 /\ top = <<>> /\ pts = <<>>
  /\ lastPolylines = <<>> /\ dxfOut = <<>>
  /\ epc = "idle" /\ ek = 0 /\ toothPts = <<>> /\ polylines = <<>>
  /\ ViewQuiet

\* the 'input' / 'change' listener that bind() puts on a text field
InputChange(id, text) ==
  /\ fields[id] # text
  /\ fields' = [fields EXCEPT ![id] = text]
  /\ Updated(fields')

\* the same listener on the two selects
TypeChange(type) ==
  /\ fields.type # type
  /\ fields' = [fields EXCEPT !.type = type]
  /\ Updated(fields')

UnitsChange(units) ==
  /\ fields.units # units
  /\ fields' = [fields EXCEPT !.units = units]
  /\ Updated(fields')

Next ==
  \/ \E id \in TextFieldIds : \E text \in FieldTexts(id) : InputChange(id, text)
  \/ \E type \in Types : TypeChange(type)
  \/ \E units \in Units : UnitsChange(units)

Spec == Init /\ [][Next]_vars

--------------------------------------------------------------------------
(* buildRackPath, one tooth period of its loop per step *)


\* the most loop tests one call is followed through
MaxIter == 16

Pt(x, y) == [x |-> x, y |-> y]

\* the locals of buildRackPath(c, inp, {x: cx - c.rackLength/2, y: cy})
RackX0(cc) == JSub(Fin(CenterX), JMulRat(cc.rackLength, 1, 2))
RackX1(cc) == JAdd(RackX0(cc), cc.rackLength)
RackYTip(cc) == JSub(Fin(CenterY), cc.a)
RackYRoot(cc) == JAdd(Fin(CenterY), cc.b)
RackHalf(cc) == JMulRat(cc.s, 1, 2)
RackRun(cc) == JDivTan(JAdd(cc.a, cc.b), cc.phi)
\* Math.max(2, Math.ceil(L / p) + 2)
RackCount(cc) == JMax(Fin(2), JAdd(JCeilRatio(cc.rackLength, cc.p), Fin(2)))

\* Math.max(x0, Math.min(x1, v))
Clamp(x0, x1, v) == JMax(x0, JMin(x1, v))

\* the closure push: append unless within 1e-6 of the last point in x and y
push(t, pt) ==
  LET last == t[Len(t)]
  IN IF Len(t) = 0
        \/ JGt(JAbs(JSub(last.x, pt.x)), Fin(DedupTol))
        \/ JGt(JAbs(JSub(last.y, pt.y)), Fin(DedupTol))
     THEN Append(t, pt) ELSE t

\* the body of the loop for index i
RackTooth(cc, t, i) ==
  LET x0 == RackX0(cc)
      x1 == RackX1(cc)
      xc == JAdd(x0, JMulInt(cc.p, i))
      half == RackHalf(cc)
      run == RackRun(cc)
      rootL == JSub(JSub(xc, half), run)
      tipL == JSub(xc, half)
      tipR == JAdd(xc, half)
      rootR == JAdd(JAdd(xc, half), run)
      rL == Clamp(x0, x1, rootL)
      tL == Clamp(x0, x1, tipL)
      tR == Clamp(x0, x1, tipR)
      rR == Clamp(x0, x1, rootR)
      intersects == JGe(rootR, x0) /\ JLe(rootL, x1)
  IN IF ~intersects THEN t
     ELSE push(push(push(push(t, Pt(rL, RackYRoot(cc))), Pt(tL, RackYTip(cc))),
                    Pt(tR, RackYTip(cc))), Pt(rR, RackYRoot(cc)))

\* "Ensure we end exactly at right root."
EndAtRightRootNot(cc, t) == t
EndAtRightRoot(cc, t) ==
  IF Len(t) = 0 \/ ~JEq(t[Len(t)].x, RackX1(cc))
  THEN Append(t, Pt(RackX1(cc), RackYRoot(cc))) ELSE t

\* Math.max(0.0001, b * 1.2)
Backing(cc) == JMax(Fin(BackingFloor), JMulRat(cc.b, 6, 5))
RackYBack(cc) == JAdd(RackYRoot(cc), Backing(cc))

\* the texts a rack is built from
RackTeethTexts == {EmptyText, NumText(2, 1), NumText(4, 1)}
RackDiameterTexts == {EmptyText, NumText(56, 1), NumText(560, 1)}
RackAngleTexts == {JunkText, EmptyText, NumText(20, 1), NumText(45, 1)}
RackBacklashTexts == {EmptyText, NumText(20, 1)}
RackAddendumTexts == {EmptyText, NumText(3, 1)}
RackDedendumTexts == {EmptyText, NumText(5, 1)}
RackSpanTexts == {EmptyText, NumText(-100, 1), NumText(100, 1), NumText(200, 1)}

\* update() has read the fields of a rack and is about to call buildRackPath
InitRack ==
  /\ fields \in [ type : {"rack"}, units : {"mm"}, teeth : RackTeethTexts,
                  pitchDiameter : RackDiameterTexts, pressureAngle : RackAngleTexts,
                  backlash : RackBacklashTexts, addendum : RackAddendumTexts,
                  dedendum : RackDedendumTexts, rackLength : RackSpanTexts,
                  samples : {EmptyText} ]
  /\ inp = readInputs(fields)
  /\ c = computeGear(inp)
  /\ dims = dimLines(inp, c)
  /\ rpc = "idle" /\ ri = -1 /\ top = <<>> /\ pts = <<>>
  /\ lastPolylines = <<>> /\ dxfOut = <<>>
  /\ epc = "idle" /\ ek = 0 /\ toothPts = <<>> /\ polylines = <<>>
  /\ ViewQuiet

\* lines 292-316: the locals, the seed at the left root, i = -1
RackEnter ==
  /\ rpc = "idle"
  /\ rpc' = "loop"
  /\ ri' = -1
  /\ top' = <<Pt(RackX0(c), RackYRoot(c))>>
  /\ UNCHANGED <<pts, appVars, dxfVars, extVars, viewVars>>

\* lines 318-350: the test i <= count holds, one tooth period, i++
RackStep ==
  /\ rpc = "loop"
  /\ JLe(Fin(ri), RackCount(c))
  /\ ri < MaxIter
  /\ top' = RackTooth(c, top, ri)
  /\ ri' = ri + 1
  /\ UNCHANGED <<rpc, pts, appVars, dxfVars, extVars, viewVars>>

\* lines 352-367: the test fails, the right root, the backing plate
RackClose ==
  /\ rpc = "loop"
  /\ ~JLe(Fin(ri), RackCount(c))
  /\ rpc' = "done"
  /\ top' = EndAtRightRoot(c, top)
  /\ pts' = top' \o << Pt(RackX1(c), RackYBack(c)), Pt(RackX0(c), RackYBack(c)) >>
  /\ UNCHANGED <<ri, appVars, dxfVars, extVars, viewVars>>

NextRack == RackEnter \/ RackStep \/ RackClose

SpecRack == InitRack /\ [][NextRack]_vars

--------------------------------------------------------------------------
(* The DXF exporter.  The text is the sequence of its lines; a line is     *)
(* [t, n]: the literal t (n = 0), the layer name t_n (n >= 1), or, for     *)
(* t = "#", the decimal of n thousandths that num() prints.                *)

\* the most polylines in one export and the most points in one polyline
MaxPolys == 3
MaxPts == 2

Str(t) == [t |-> t, n |-> 0]
\* `${layer}_${i+1}`
LayerNameZeroBased(layer, i) == [t |-> layer, n |-> i]
LayerName(layer, i) == [t |-> layer, n |-> i + 1]

\* (Math.round(n * 1000) / 1000).toString()
num(n) ==
  IF IsNaN(n) THEN Str("NaN")
  ELSE IF IsInf(n) THEN Str(IF n.v > 0 THEN "Infinity" ELSE "-Infinity")
  ELSE [t |-> "#", n |-> RDiv(n.v, 1000)]

header ==
  << Str("0"), Str("SECTION"), Str("2"), Str("HEADER"), Str("9"), Str("$ACADVER"),
     Str("1"), Str("AC1009"), Str("0"), Str("ENDSEC"), Str("0"), Str("SECTION"),
     Str("2"), Str("ENTITIES") >>

footer == << Str("0"), Str("ENDSEC"), Str("0"), Str("EOF") >>

vertex(pt, layer) ==
  << Str("0"), Str("VERTEX"), Str("8"), layer, Str("10"), num(pt.x),
     Str("20"), num(pt.y), Str("30"), Str("0") >>

RECURSIVE vertices(_, _)
vertices(points, layer) ==
  IF points = <<>> THEN <<>>
  ELSE vertex(Head(points), layer) \o vertices(Tail(points), layer)

polyline(points, layer, closed) ==
  << Str("0"), Str("POLYLINE"), Str("8"), layer, Str("66"), Str("1"),
     Str("70"), Str(IF closed THEN "1" ELSE "0") >>
  \o vertices(points, layer) \o << Str("0"), Str("SEQEND") >>

\* an element of the list handed over: undefined / null, or a list of points
NoPolyline == [null |-> TRUE, pts |-> <<>>]
Polyline(points) == [null |-> FALSE, pts |-> points]

\* the forEach callback for the element at 0-based index i
entity(poly, i, layer) ==
  IF poly.null \/ Len(poly.pts) < 2 THEN <<>>
  ELSE polyline(poly.pts, LayerName(layer, i), TRUE)

RECURSIVE entitiesFrom(_, _, _)
entitiesFrom(polys, i, layer) ==
  IF i >= Len(polys) THEN <<>>
  ELSE entity(polys[i + 1], i, layer) \o entitiesFrom(polys, i + 1, layer)

dxfFromPolylines(polys, layer) ==
  header \o entitiesFrom(polys, 0, layer) \o footer

\* the points and lists the exporter is given
DxfPoints ==
  { Pt(Fin(0), Fin(0)), Pt(Fin(1499), Fin(-2500)) }
SeqsUpTo(S, n) == UNION { [1..k -> S] : k \in 0..n }
DxfPolylines == {NoPolyline} \cup { Polyline(q) : q \in SeqsUpTo(DxfPoints, MaxPts) }

AppQuiet ==
  /\ fields = [ type |-> "external", units |-> "mm", teeth |-> NumText(2, 1),
                pitchDiameter |-> NumText(56, 1), pressureAngle |-> NumText(20, 1),
                backlash |-> EmptyText, addendum |-> EmptyText,
                dedendum |-> EmptyText, rackLength |-> NumText(200, 1),
                samples |-> EmptyText ]
  /\ inp = readInputs(fields)
  /\ c = computeGear(inp)
  /\ dims = dimLines(inp, c)

RackQuiet == rpc = "idle" /\ ri = -1 /\ top = <<>> /\ pts = <<>>

InitDxf ==
  /\ AppQuiet /\ RackQuiet
  /\ epc = "idle" /\ ek = 0 /\ toothPts = <<>> /\ polylines = <<>>
  /\ ViewQuiet
  /\ lastPolylines \in SeqsUpTo(DxfPolylines, MaxPolys)
  /\ dxfOut = <<>>

\* the click listener of btnDownloadDXF
DownloadDXF ==
  /\ dxfOut' = dxfFromPolylines(lastPolylines, "GEAR")
  /\ UNCHANGED <<lastPolylines, appVars, rackVars, extVars, viewVars>>

NextDxf == DownloadDXF

SpecDxf == InitDxf /\ [][NextDxf]_vars

--------------------------------------------------------------------------
(* buildExternalGearPath.  A point is held in polar form about the gear    *)
(* centre: its squared radius r2n/r2d (exact, in squared length units)     *)
(* and the place on the outline that fixes its angle: the curve it lies    *)
(* on, the step i of n along that curve, whether it was mirrored about the *)
(* x axis, and the number of tooth pitches 2*PI/N it was rotated by.  The  *)
(* involute point at parameter t has squared radius rb^2 + rb^2*t^2; a     *)
(* parameter is held as u = rb^2*t^2, the rational un/ud.                  *)

\* the most teeth and the most samples of the gears built
MaxTeeth == 3
MaxSamples == 14

Sq(n) == n * n

\* involutePoint(rb, t) with rb^2*t^2 = un/ud, as the step i of n of curve
involutePoint(rb, un, ud, curve, i, n) ==
  [ r2n |-> Sq(rb) * ud + un, r2d |-> ud, curve |-> curve, i |-> i, n |-> n,
    mirror |-> FALSE, turn |-> 0 ]

\* polar(r, theta) for the angle at step i of n along an arc
polar(r, curve, i, n) ==
  [ r2n |-> Sq(r), r2d |-> 1, curve |-> curve, i |-> i, n |-> n,
    mirror |-> FALSE, turn |-> 0 ]

\* rotate(pt, k * (2*PI/N)), then translate(.., cx, cy): the radius about
\* the centre is kept
rotate(pt, k) == [pt EXCEPT !.turn = @ + k]
\* ({ x: p.x, y: -p.y })
mirrorY(pt) == [pt EXCEPT !.mirror = ~@]

Reverse(q) == [j \in 1..Len(q) |-> q[Len(q) + 1 - j]]

\* rb^2 * tMax^2 = rb^2 * max(0, rTarget^2/rb^2 - 1), for rb > 0
ParamSq(rb, rTarget) == IF Sq(rTarget) > Sq(rb) THEN Sq(rTarget) - Sq(rb) ELSE 0

\* sampleInvolute(rb, rTarget, samples).pts: t = tMax * (i/samples)
sampleInvolute(rb, rTarget, samples) ==
  [ j \in 1..(samples + 1) |->
      involutePoint(rb, ParamSq(rb, rTarget) * Sq(j - 1), Sq(samples),
                    "involute", j - 1, samples) ]

\* Math.max(10, Math.floor(samples/2))
ArcStepsNoMin(samples) == samples \div 2
ArcSteps(samples) == IF samples \div 2 > 10 THEN samples \div 2 ELSE 10

\* the points i = 1 .. steps-1 of an arc at radius r
arcPts(r, curve, steps) == [ j \in 1..(steps - 1) |-> polar(r, curve, j, steps) ]

\* the radii of buildExternalGearPath (finite dimensions)
ExtRb(cc) == JMulRat(cc.Db, 1, 2).v
ExtRa(cc) == JMulRat(cc.Do_ext, 1, 2).v
ExtRr(cc) == JMulRat(cc.Dr_ext, 1, 2).v
\* Math.max(rr, rb)
ExtRStart(cc) == IF ExtRr(cc) > ExtRb(cc) THEN ExtRr(cc) ELSE ExtRb(cc)

\* leftFlank: the sampled involute with its first point replaced by pStart
leftFlank(cc, samples) ==
  [ sampleInvolute(ExtRb(cc), ExtRa(cc), samples) EXCEPT
      ![1] = involutePoint(ExtRb(cc), ParamSq(ExtRb(cc), ExtRStart(cc)), 1, "start", 0, 1) ]

rightFlank(cc, samples) ==
  Reverse([ j \in 1..(samples + 1) |-> mirrorY(leftFlank(cc, samples)[j]) ])

\* toothPts: left flank, tip arc, right flank, root arc
toothOutline(cc, samples) ==
  leftFlank(cc, samples) \o arcPts(ExtRa(cc), "tip", ArcSteps(samples))
    \o rightFlank(cc, samples) \o arcPts(ExtRr(cc), "root", ArcSteps(samples))

\* toothPts.map(p => translate(rotate(p, a), cx, cy)) for a = k * (2*PI/N)
toothAtFirst(outline, k) == outline
toothAt(outline, k) == [ j \in 1..Len(outline) |-> rotate(outline[j], k) ]

\* Angles are held in thousandths of a radian, and so are the involute
\* parameters t; Math.PI is 22/7 as everywhere in this module.
PiMilli == 3143

\* Math.sqrt on whole numbers, rounded down
ISqrt(n) == CHOOSE k \in 0..n : k * k <= n /\ (k + 1) * (k + 1) > n

\* Math.sqrt(Math.max(0, (r*r)/(rb*rb) - 1)), in thousandths
involuteParam(rb, r) == RDiv(ISqrt(ParamSq(rb, r)) * 1000, rb)

\* Math.atan for 0 <= x <= 1 (x in thousandths): (PI/4)x + 0.273x(1 - x),
\* within 0.004 rad of the arc tangent
AtanUnit(x) == RDiv(11 * x, 14) + RDiv(273 * x * (1000 - x), 1000000)
Atan(x) ==
  IF x <= 1000 THEN AtanUnit(x)
  ELSE RDiv(PiMilli, 2) - AtanUnit(RDiv(1000000, x))

\* Math.atan2 brings every angle into (-PI, PI]
WrapAngle(a) ==
  IF a > PiMilli THEN a - 2 * PiMilli
  ELSE IF a <= -PiMilli THEN a + 2 * PiMilli ELSE a

\* angleOfPoint(involutePoint(rb, t)): the point rb(cos t + t sin t),
\* rb(sin t - t cos t) lies at the angle t - atan(t)
angleOfPoint(t) == WrapAngle(t - Atan(t))

\* thetaPitchHalf = c.s / (2*rp), rp = c.D/2
ExtThetaPitchHalf(cc) == RDiv(cc.s.v * 1000, cc.D.v)
\* rot = thetaPitchHalf - alphaPitch
ExtRot(cc) ==
  ExtThetaPitchHalf(cc)
    - angleOfPoint(involuteParam(ExtRb(cc), JMulRat(cc.D, 1, 2).v))

\* angL: the angle of tipL, the last point of the involute turned by rot
ExtAngL(cc) ==
  WrapAngle(angleOfPoint(involuteParam(ExtRb(cc), ExtRa(cc))) + ExtRot(cc))
\* angR: the angle of tipR, the mirror image of tipL
ExtAngR(cc) == IF ExtAngL(cc) = PiMilli THEN PiMilli ELSE 0 - ExtAngL(cc)

\* ang1 = angL; ang2 = angR; if(ang2 < ang1) ang2 += Math.PI*2
TipAng1(cc) == ExtAngL(cc)
TipAng2(cc) ==
  IF ExtAngR(cc) < ExtAngL(cc) THEN ExtAngR(cc) + 2 * PiMilli ELSE ExtAngR(cc)
\* the angle the tip arc sweeps, ang2 - ang1
TipSweep(cc) == TipAng2(cc) - TipAng1(cc)

\* the texts an external gear is built from
ExtTeethTexts == { NumText(n, 1) : n \in 1..MaxTeeth }
ExtSamplesTexts ==
  { NumText(n, 1) : n \in (MinSamples - 1)..MaxSamples } \cup { NumText(49, 2) }
ExtDedendumTexts == { NumText(25, 1), NumText(400, 1) }
ExtBacklashTexts == { EmptyText, NumText(30, 1) }

\* update() has read the fields of an external gear and is about to call
\* buildExternalGearPath
InitExt ==
  /\ fields \in [ type : {"external"}, units : {"mm"}, teeth : ExtTeethTexts,
                  pitchDiameter : {NumText(2000, 1)}, pressureAngle : {NumText(20, 1)},
                  backlash : ExtBacklashTexts, addendum : {NumText(100, 1)},
                  dedendum : ExtDedendumTexts, rackLength : {NumText(200, 1)},
                  samples : ExtSamplesTexts ]
  /\ inp = readInputs(fields)
  /\ c = computeGear(inp)
  /\ dims = dimLines(inp, c)
  /\ RackQuiet
  /\ lastPolylines = <<>> /\ dxfOut = <<>>
  /\ epc = "idle" /\ ek = 0 /\ toothPts = <<>> /\ polylines = <<>>
  /\ ViewQuiet

\* lines 120-196: the one tooth outline, the empty list, k = 0
ExtEnter ==
  /\ epc = "idle"
  /\ epc' = "loop"
  /\ toothPts' = toothOutline(c, inp.samples.v)
  /\ polylines' = <<>>
  /\ ek' = 0
  /\ UNCHANGED <<appVars, rackVars, dxfVars, viewVars>>

\* lines 197-202: the test k < N holds, one tooth pushed, k++
ExtReplicate ==
  /\ epc = "loop"
  /\ JLt(Fin(ek), c.N)
  /\ polylines' = Append(polylines, toothAt(toothPts, ek))
  /\ ek' = ek + 1
  /\ UNCHANGED <<epc, toothPts, appVars, rackVars, dxfVars, viewVars>>

\* line 204: the test fails, the polylines are returned
ExtReturn ==
  /\ epc = "loop"
  /\ ~JLt(Fin(ek), c.N)
  /\ epc' = "done"
  /\ UNCHANGED <<ek, toothPts, polylines, appVars, rackVars, dxfVars, viewVars>>

NextExt == ExtEnter \/ ExtReplicate \/ ExtReturn

SpecExt == InitExt /\ [][NextExt]_vars

--------------------------------------------------------------------------
(* The drawing half of update(), the pan and zoom listeners and the DXF    *)
(* button: what the page keeps for export and how it looks at it.          *)

\* the most wheel and zoom button events followed, the farthest pan
MaxZooms == 1
MaxPan == 1

\* Math.max(0.05, Math.min(50, .)) and Math.max(0.3, Math.min(20, .))
FitMin == 50
FitMax == 50000
ZoomMin == 300
ZoomMax == 20000
\* the view box 1200 x 800 and the margin 110 update() fits into
ViewBoxW == 1200000000
ViewBoxH == 800000000
FitMargin == 110000000

\* buildRackPath(c, inp, ..).points when the loop is run from i = -1 on
RECURSIVE RackTopFrom(_, _, _)
RackTopFrom(cc, t, i) ==
  IF JLe(Fin(i), RackCount(cc)) THEN RackTopFrom(cc, RackTooth(cc, t, i), i + 1)
  ELSE t
RackPoints(cc) ==
  EndAtRightRoot(cc, RackTopFrom(cc, <<Pt(RackX0(cc), RackYRoot(cc))>>, -1))
    \o << Pt(RackX1(cc), RackYBack(cc)), Pt(RackX0(cc), RackYBack(cc)) >>
\* the loop test i <= count fails at some i: count is not +Infinity
RackHalts(cc) == RackCount(cc) # PInf

\* window.__lastPolylines as update() leaves it: [rack.points] for a rack,
\* [gear.points] for a gear, and the gear builders return { els, polylines },
\* so gear.points is undefined
Drawn(i, cc) ==
  IF i.type = "rack" THEN << Polyline(RackPoints(cc)) >> ELSE << NoPolyline >>

\* bboxFromPolylines: the finite points of the polylines given
FinitePoints(polys) ==
  { pt \in UNION { { polys[n].pts[m] : m \in 1..Len(polys[n].pts) } : n \in 1..Len(polys) } :
      IsFin(pt.x) /\ IsFin(pt.y) }
Least(S) == CHOOSE v \in S : \A w \in S : v <= w
Most(S) == CHOOSE v \in S : \A w \in S : v >= w
NoBbox == [null |-> TRUE, w |-> 0, h |-> 0]
bboxFromPolylines(polys) ==
  LET P == FinitePoints(polys)
      X == { pt.x.v : pt \in P }
      Y == { pt.y.v : pt \in P }
  IN IF P = {} THEN NoBbox
     ELSE [null |-> FALSE, w |-> Most(X) - Least(X), h |-> Most(Y) - Least(Y)]

\* v / w in thousandths for w > 0; a quotient above 51 is held as 51, its
\* one use being under Math.min(50, .)
Ratio(v, w) ==
  IF w <= v \div (FitMax \div CameraOne + 1) THEN FitMax + CameraOne
  ELSE RDiv(v, RDiv(w, CameraOne))
Larger(x, y) == IF x >= y THEN x ELSE y
Smaller(x, y) == IF x <= y THEN x ELSE y

fitScaleToViewBox(bbox, viewW, viewH, margin) ==
  LET vw == viewW - margin * 2
      vh == viewH - margin * 2
  IN IF bbox.null THEN CameraOne
     ELSE IF bbox.w <= 0 \/ bbox.h <= 0 THEN CameraOne
     ELSE Larger(FitMin, Smaller(FitMax, Smaller(Ratio(vw, bbox.w), Ratio(vh, bbox.h))))

\* the camera after the "auto-fit" block of update()
RefitAlways(fit, cam, polys) ==
  [ x |-> 0, y |-> 0,
    k |-> fitScaleToViewBox(bboxFromPolylines(polys), ViewBoxW, ViewBoxH, FitMargin) ]
Refit(fit, cam, polys) ==
  IF fit
  THEN [ x |-> 0, y |-> 0,
         k |-> fitScaleToViewBox(bboxFromPolylines(polys), ViewBoxW, ViewBoxH, FitMargin) ]
  ELSE cam

\* update(), whole, entered with the fields f, the camera cam and the flag
\* fit; a rack whose loop has no end never lets it return
update(f, cam, fit) ==
  LET i == readInputs(f)
      cc == computeGear(i)
  IN /\ i.type = "rack" => RackHalts(cc)
     /\ inp' = i
     /\ c' = cc
     /\ dims' = dimLines(i, cc)
     /\ lastPolylines' = Drawn(i, cc)
     /\ camera' = Refit(fit, cam, lastPolylines')
     /\ UNCHANGED <<rackVars, extVars>>

\* the texts typed into the tooth count while the view is followed
ViewTeethTexts == { NumText(1, 1), NumText(2, 1) }

\* initPanZoom(); bind(); update()
InitView ==
  /\ fields \in [ type : Types, units : {"mm"}, teeth : ViewTeethTexts,
                  pitchDiameter : {NumText(56, 1)}, pressureAngle : {NumText(20, 1)},
                  backlash : {EmptyText}, addendum : {EmptyText},
                  dedendum : {EmptyText}, rackLength : {NumText(200, 1)},
                  samples : {EmptyText} ]
  /\ inp = readInputs(fields)
  /\ c = computeGear(inp)
  /\ inp.type = "rack" => RackHalts(c)
  /\ dims = dimLines(inp, c)
  /\ RackQuiet
  /\ epc = "idle" /\ ek = 0 /\ toothPts = <<>> /\ polylines = <<>>
  /\ lastPolylines = Drawn(inp, c)
  /\ dxfOut = <<>>
  /\ camera = Refit(TRUE, [x |-> 0, y |-> 0, k |-> CameraOne], lastPolylines)
  /\ isPanning = FALSE
  /\ panStart = NoPanStart
  /\ autoFit = TRUE
  /\ zooms = 0

\* the 'input' / 'change' listener on the type select and the tooth count
ViewTypeChange(type) ==
  /\ fields.type # type
  /\ fields' = [fields EXCEPT !.type = type]
  /\ update(fields', camera, autoFit)
  /\ UNCHANGED <<dxfOut, isPanning, panStart, autoFit, zooms>>

ViewTeethChange(text) ==
  /\ fields.teeth # text
  /\ fields' = [fields EXCEPT !.teeth = text]
  /\ update(fields', camera, autoFit)
  /\ UNCHANGED <<dxfOut, isPanning, panStart, autoFit, zooms>>

\* where the pointer can be: (clientX, clientY)
PointerSpots == { <<0, 0>>, <<1, 2>> }

PointerDown(spot) ==
  /\ autoFit' = FALSE
  /\ isPanning' = TRUE
  /\ panStart' = PanStart(spot[1], spot[2], camera.x, camera.y)
  /\ UNCHANGED <<appVars, rackVars, dxfVars, extVars, camera, zooms>>

PointerMove(spot) ==
  /\ isPanning /\ ~panStart.null
  /\ panStart.ox + (spot[1] - panStart.x) \in (0 - MaxPan)..MaxPan
  /\ update(fields,
            [camera EXCEPT !.x = panStart.ox + (spot[1] - panStart.x),
                           !.y = panStart.oy + (spot[2] - panStart.y)],
            autoFit)
  /\ UNCHANGED <<fields, dxfOut, isPanning, panStart, autoFit, zooms>>

PointerUp ==
  /\ isPanning' = FALSE
  /\ panStart' = NoPanStart
  /\ UNCHANGED <<appVars, rackVars, dxfVars, extVars, camera, autoFit, zooms>>

PointerCancel ==
  /\ isPanning' = FALSE
  /\ panStart' = NoPanStart
  /\ UNCHANGED <<appVars, rackVars, dxfVars, extVars, camera, autoFit, zooms>>

\* setCamera(k) (dx = dy = 0 at every call): the zoom kept within 0.3 .. 20
setCameraUnclamped(k) ==
  /\ zooms < MaxZooms
  /\ zooms' = zooms + 1
  /\ autoFit' = FALSE
  /\ update(fields, [camera EXCEPT !.k = k], FALSE)
  /\ UNCHANGED <<fields, dxfOut, isPanning, panStart>>
setCamera(k) ==
  /\ zooms < MaxZooms
  /\ zooms' = zooms + 1
  /\ autoFit' = FALSE
  /\ update(fields, [camera EXCEPT !.k = Larger(ZoomMin, Smaller(ZoomMax, k))], FALSE)
  /\ UNCHANGED <<fields, dxfOut, isPanning, panStart>>

\* the wheel listener: factor 0.92 for deltaY > 0, else 1.08
Wheel(deltaY) ==
  setCamera(RDiv(camera.k * (IF deltaY > 0 THEN 92 ELSE 108), 100))

ZoomIn == setCamera(RDiv(camera.k * 112, 100))
ZoomOut == setCamera(RDiv(camera.k * 90, 100))

ZoomReset ==
  /\ autoFit' = TRUE
  /\ update(fields, [x |-> 0, y |-> 0, k |-> CameraOne], TRUE)
  /\ UNCHANGED <<fields, dxfOut, isPanning, panStart, zooms>>

NextView ==
  \/ \E type \in Types : ViewTypeChange(type)
  \/ \E text \in ViewTeethTexts : ViewTeethChange(text)
  \/ \E spot \in PointerSpots : PointerDown(spot)
  \/ \E spot \in PointerSpots : PointerMove(spot)
  \/ PointerUp
  \/ PointerCancel
  \/ \E deltaY \in {-1, 0, 1} : Wheel(deltaY)
  \/ ZoomIn
  \/ ZoomOut
  \/ ZoomReset
  \/ DownloadDXF

SpecView == InitView /\ [][NextView]_vars

--------------------------------------------------------------------------
(* Claims about the formatter, the dimension calculator and the reader *)

\* C6: fmt returns the placeholder for every non-finite value, whatever the
\* unit tag ('deg' included): every value the dimension block formats that
\* is not finite reads as the placeholder.
C6_NonFinitePlaceholder ==
  \A k \in DOMAIN dims : ~IsFin(dims[k].val) => dims[k].text = Placeholder

\* C7 as stated: for finite p and backlash >= 0, s0 = p/2 and
\* s = max(0, s0 - backlash), so that 0 <= s <= s0.
C7_AsStated ==
  (IsFin(c.p) /\ JGe(c.backlash, Fin(0))) =>
    /\ c.s0 = JMulRat(c.p, 1, 2)
    /\ c.s = JMax(Fin(0), JSub(c.s0, c.backlash))
    /\ JLe(Fin(0), c.s) /\ JLe(c.s, c.s0)

\* C7 amended: for finite p >= 0 and backlash >= 0, s0 = p/2 and
\* s = max(0, s0 - backlash), so that 0 <= s <= s0, and s = 0 whenever
\* backlash >= p/2.
C7_ThicknessClamped ==
  (IsFin(c.p) /\ JGe(c.p, Fin(0)) /\ JGe(c.backlash, Fin(0))) =>
    /\ c.s0 = JMulRat(c.p, 1, 2)
    /\ c.s = JMax(Fin(0), JSub(c.s0, c.backlash))
    /\ JLe(Fin(0), c.s) /\ JLe(c.s, c.s0)
    /\ (JGe(c.backlash, c.s0) => c.s = Fin(0))

\* a positive pitch whose half is below the backlash: the clamp has acted
C7_Witness ==
  /\ IsFin(c.p) /\ JGt(c.p, Fin(0))
  /\ JGt(c.backlash, c.s0)
  /\ c.s = Fin(0)

\* the diameters computeGear exposes, by type
C8_Formulas ==
  /\ c.type = "internal" =>
       /\ c.Do = JAdd(c.D, JMulInt(c.b, 2))
       /\ c.Dr = JMax(Fin(DrFloor), JSub(c.D, JMulInt(c.a, 2)))
  /\ c.type # "internal" =>
       /\ c.Do = JAdd(c.D, JMulInt(c.a, 2))
       /\ c.Dr = JMax(Fin(DrFloor), JSub(c.D, JMulInt(c.b, 2)))

\* C8 as stated: the formulas, Dr >= 0.001 for every type and, for
\* a, b > 0 and finite D, Dr <= Do.
C8_AsStated ==
  /\ C8_Formulas
  /\ JGe(c.Dr, Fin(DrFloor))
  /\ (JGt(c.a, Fin(0)) /\ JGt(c.b, Fin(0)) /\ IsFin(c.D)) => JLe(c.Dr, c.Do)

\* C8 amended: the formulas; Dr >= 0.001 unless the difference it floors is
\* NaN (then Dr is NaN); and, for a, b > 0 and finite D, Dr <= Do as soon as
\* Do >= 0.001.
C8_DiametersByType ==
  /\ C8_Formulas
  /\ JGe(c.Dr, Fin(DrFloor)) \/ IsNaN(c.Dr)
  /\ IsNaN(c.Dr) =>
       IsNaN(JSub(c.D, JMulInt(IF c.type = "internal" THEN c.a ELSE c.b, 2)))
  /\ (JGt(c.a, Fin(0)) /\ JGt(c.b, Fin(0)) /\ IsFin(c.D)
        /\ JGe(c.Do, Fin(DrFloor))) => JLe(c.Dr, c.Do)

\* an internal gear whose tip diameter is floored below its root diameter
C8_Witness ==
  /\ c.type = "internal" /\ IsFin(c.D)
  /\ JGt(c.a, Fin(0)) /\ JGt(c.b, Fin(0))
  /\ c.Dr = Fin(DrFloor) /\ JLt(JSub(c.D, JMulInt(c.a, 2)), Fin(DrFloor))
  /\ c.Do = JAdd(c.D, JMulInt(c.b, 2)) /\ JGt(c.Do, c.Dr)

--------------------------------------------------------------------------
(* Claims about buildRackPath *)

RackPre ==
  /\ rpc \in {"loop", "done"}
  /\ IsFin(c.rackLength) /\ c.rackLength.v > 0

\* C1: for finite L > 0, p > 0, s >= 0 and a flank run >= 0, the x of the
\* top sub-sequence never decreases from one point to the next, after any
\* number of tooth periods.
C1_TopNonDecreasing ==
  (RackPre /\ JGt(c.p, Fin(0)) /\ JGe(c.s, Fin(0)) /\ JGe(RackRun(c), Fin(0))) =>
    \A k \in 1..(Len(top) - 1) : JLe(top[k].x, top[k + 1].x)

\* C4: every call of buildRackPath terminates: whenever the loop test
\* i <= count lets the loop go on, count is a finite number of periods.
C4_RackLoopEnds ==
  (rpc = "loop" /\ JLe(Fin(ri), RackCount(c))) => IsFin(RackCount(c))

C5_Pre == rpc = "done" /\ RackPre /\ JGt(JAdd(c.a, c.b), Fin(DedupTol))

C5_Span ==
  /\ \A k \in 1..Len(pts) : JLe(RackX0(c), pts[k].x) /\ JLe(pts[k].x, RackX1(c))
  /\ Len(pts) >= 4
  /\ pts[1] = Pt(RackX0(c), RackYRoot(c))
  /\ pts[Len(pts) - 2] = Pt(RackX1(c), RackYRoot(c))
  /\ top = SubSeq(pts, 1, Len(pts) - 2)

\* C5 as stated: every x in [x0, x1], first point (x0, yRoot), last top
\* point (x1, yRoot), then the backing points at yRoot + 1.2*b.
C5_AsStated ==
  C5_Pre =>
    /\ C5_Span
    /\ pts[Len(pts) - 1] = Pt(RackX1(c), JAdd(RackYRoot(c), JMulRat(c.b, 6, 5)))
    /\ pts[Len(pts)] = Pt(RackX0(c), JAdd(RackYRoot(c), JMulRat(c.b, 6, 5)))

\* C5 amended: the same with the backing points at
\* yRoot + max(0.0001, 1.2*b).
C5_SpanAndBacking ==
  C5_Pre =>
    /\ C5_Span
    /\ pts[Len(pts) - 1] =
         Pt(RackX1(c), JAdd(RackYRoot(c), JMax(Fin(BackingFloor), JMulRat(c.b, 6, 5))))
    /\ pts[Len(pts)] =
         Pt(RackX0(c), JAdd(RackYRoot(c), JMax(Fin(BackingFloor), JMulRat(c.b, 6, 5))))

\* a finished rack with teeth, whose last tooth was cut at x1 and whose
\* backing depth is 1.2*b
C5_Witness ==
  /\ C5_Pre
  /\ Len(pts) > 6
  /\ JGt(JAdd(JAdd(JAdd(RackX0(c), JMulInt(c.p, ri - 1)), RackHalf(c)), RackRun(c)), RackX1(c))
  /\ JGt(JMulRat(c.b, 6, 5), Fin(BackingFloor))

--------------------------------------------------------------------------
(* Claims about the DXF exporter *)

\* the group (code, value) pairs of the text: pair j is lines 2j-1 and 2j
PairCount == Len(dxfOut) \div 2
Code(j) == dxfOut[2 * j - 1]
Value(j) == dxfOut[2 * j]
IsEntity(j, what) == Code(j) = Str("0") /\ Value(j) = Str(what)
\* the pairs that open a POLYLINE block between the header and the footer
Blocks == { j \in (Len(header) \div 2 + 1)..(PairCount - Len(footer) \div 2) :
              IsEntity(j, "POLYLINE") }
\* the pair that closes the block opened at pair j
BlockEnd(j) == CHOOSE e \in j..PairCount :
                 IsEntity(e, "SEQEND") /\ \A m \in j..(e - 1) : ~IsEntity(m, "SEQEND")
\* the VERTEX records of the block opened at pair j
Vertices(j) == { m \in j..BlockEnd(j) : IsEntity(m, "VERTEX") }
\* the layer tag of the entity or vertex at pair j
LayerOf(j) == Value(j + 1)
\* the rank (1-based) of block j among the blocks
BlockRank(j) == Cardinality({ b \in Blocks : b <= j })

VertexWellFormed(m, layer) ==
  /\ Code(m + 1) = Str("8") /\ Value(m + 1) = layer
  /\ Code(m + 2) = Str("10") /\ Code(m + 3) = Str("20")
  /\ Code(m + 4) = Str("30") /\ Value(m + 4) = Str("0")

\* block j is the export of the polyline at 0-based position i
BlockExports(j, i) ==
  /\ Code(j + 1) = Str("8") /\ LayerOf(j) = [t |-> "GEAR", n |-> i + 1]
  /\ Cardinality(Vertices(j)) = Len(lastPolylines[i + 1].pts)
  /\ \A m \in Vertices(j) : VertexWellFormed(m, LayerOf(j))

DistinctLayers == \A j1, j2 \in Blocks : j1 # j2 => LayerOf(j1) # LayerOf(j2)

\* C2 as stated: k polylines give exactly k POLYLINE blocks, the block of
\* the polyline at position i carries layer GEAR_<i+1>, the layer names are
\* pairwise distinct, and each block has one VERTEX (z = 0) per point.
C2_AsStated ==
  (dxfOut # <<>> /\ \A i \in 1..Len(lastPolylines) : ~lastPolylines[i].null) =>
    /\ Cardinality(Blocks) = Len(lastPolylines)
    /\ \A j \in Blocks : BlockExports(j, BlockRank(j) - 1)
    /\ DistinctLayers

\* the positions (0-based) of the polylines the exporter does not skip
Exported == { i \in 0..(Len(lastPolylines) - 1) :
                ~lastPolylines[i + 1].null /\ Len(lastPolylines[i + 1].pts) >= 2 }
\* the position of the polyline exported as the r-th block
ExportedAt(r) == CHOOSE i \in Exported : Cardinality({ e \in Exported : e <= i }) = r

\* C2 amended: the output holds exactly one POLYLINE block per polyline
\* that has at least two points (a missing or shorter polyline is skipped),
\* in list order; the block of the polyline at position i carries layer
\* GEAR_<i+1> (i counted over the whole list), the layer names are pairwise
\* distinct, and each block has one VERTEX (z = 0) per point.
C2_OneBlockPerExported ==
  dxfOut # <<>> =>
    /\ Cardinality(Blocks) = Cardinality(Exported)
    /\ \A j \in Blocks : BlockExports(j, ExportedAt(BlockRank(j)))
    /\ DistinctLayers

\* a download of three polylines whose first is skipped: two blocks, tagged
\* GEAR_2 and GEAR_3
C2_Witness ==
  /\ dxfOut # <<>>
  /\ Len(lastPolylines) = 3
  /\ Exported = {1, 2}
  /\ { LayerOf(j) : j \in Blocks } = { [t |-> "GEAR", n |-> 2], [t |-> "GEAR", n |-> 3] }

--------------------------------------------------------------------------
(* Claims about buildExternalGearPath *)

\* the point count the claim gives: 2*(samples+1) + 2*(max(10, floor(samples/2)) - 1)
ClaimedCount(samples) ==
  2 * (samples + 1) + 2 * ((IF samples \div 2 > 10 THEN samples \div 2 ELSE 10) - 1)

\* C3: for integer N > 0 and samples >= 12 the builder returns exactly N
\* polylines, all of 2*(samples+1) + 2*(max(10, floor(samples/2)) - 1)
\* points, and the polyline at index k is the base tooth turned by k tooth
\* pitches, k = 0..N-1.
C3_OnePolylinePerTooth ==
  (epc = "done" /\ IsFin(c.N) /\ c.N.v > 0 /\ inp.samples.v >= MinSamples) =>
    /\ Len(polylines) = c.N.v
    /\ \A k \in 0..(c.N.v - 1) :
         /\ Len(polylines[k + 1]) = ClaimedCount(inp.samples.v)
         /\ \A j \in 1..Len(toothPts) :
              /\ polylines[k + 1][j].turn = toothPts[j].turn + k
              /\ [polylines[k + 1][j] EXCEPT !.turn = 0] = [toothPts[j] EXCEPT !.turn = 0]

\* a finished gear of several teeth whose arcs have more than 10 steps
C3_Witness ==
  /\ epc = "done"
  /\ Len(polylines) = MaxTeeth
  /\ inp.samples.v \div 2 > 10
  /\ polylines[MaxTeeth][1].turn = MaxTeeth - 1

IsFlank(pt) == pt.curve \in {"involute", "start"}

\* C10: every point of the left flank and of its mirrored right flank has a
\* radius of at least rStart = max(rr, rb) and of at most ra.
C10_FlankWithinStartAndTip ==
  epc # "idle" =>
    \A j \in 1..Len(toothPts) :
      IsFlank(toothPts[j]) =>
        /\ toothPts[j].r2n >= Sq(ExtRStart(c)) * toothPts[j].r2d
        /\ toothPts[j].r2n <= Sq(ExtRa(c)) * toothPts[j].r2d

\* C11: for every tooth whose left flank tip lies at an angle angL with
\* 0 < angL < PI, the tip arc laid between the flanks sweeps at most PI
\* (it goes the shorter way round).
C11_TipArcShorterWay ==
  (epc # "idle" /\ ExtAngL(c) > 0 /\ ExtAngL(c) < PiMilli
     /\ \E j \in 1..Len(toothPts) : toothPts[j].curve = "tip")
    => TipSweep(c) <= PiMilli

\* the points of the tooth outline that lie on the given arc
ArcPoints(curve) == { j \in 1..Len(toothPts) : toothPts[j].curve = curve }
\* max(10, floor(samples/2)) - 1
ClaimedArcPoints(samples) ==
  (IF samples \div 2 >= 10 THEN samples \div 2 ELSE 10) - 1

\* C12 as stated: for samples >= 12 the tip arc laid between the flanks has
\* at least max(10, samples/2) points, and so has the root arc.
C12_AsStated ==
  (epc # "idle" /\ inp.samples.v >= MinSamples) =>
    /\ 2 * Cardinality(ArcPoints("tip")) >= 20
    /\ 2 * Cardinality(ArcPoints("tip")) >= inp.samples.v
    /\ 2 * Cardinality(ArcPoints("root")) >= 20
    /\ 2 * Cardinality(ArcPoints("root")) >= inp.samples.v

\* C12 amended: for samples >= 12 the tip arc laid between the flanks has
\* exactly max(10, floor(samples/2)) - 1 points, hence at least 9, placed
\* right after the left flank; the root arc has as many, placed right after
\* the right flank.
C12_ArcPointCount ==
  (epc # "idle" /\ inp.samples.v >= MinSamples) =>
    LET n == inp.samples.v
        k == ClaimedArcPoints(n)
    IN /\ k >= 9
       /\ ArcPoints("tip") = (n + 2)..(n + 1 + k)
       /\ ArcPoints("root") = (2 * n + 3 + k)..(2 * n + 2 + 2 * k)

\* a tooth whose arcs follow samples/2 rather than the minimum of 10
C12_Witness ==
  /\ epc = "done"
  /\ inp.samples.v >= 22
  /\ Cardinality(ArcPoints("tip")) = inp.samples.v \div 2 - 1
  /\ Cardinality(ArcPoints("tip")) > 9

--------------------------------------------------------------------------
(* Claims about the export kept by update() and about the view state *)

\* the download on screen is the export of what update() last kept
DownloadCurrent == dxfOut # <<>> /\ dxfOut = dxfFromPolylines(lastPolylines, "GEAR")

\* C13: after an update() of an external or internal gear with integer N > 0
\* the polylines kept for export are the N tooth outlines, so a download
\* holds exactly N POLYLINE entities tagged GEAR_1 .. GEAR_N; after an
\* update() of a rack it holds exactly one.
C13_ExportHoldsEveryTooth ==
  DownloadCurrent =>
    /\ (inp.type # "rack" /\ IsFin(inp.N) /\ inp.N.v > 0) =>
         /\ Len(lastPolylines) = inp.N.v
         /\ Cardinality(Blocks) = inp.N.v
         /\ { LayerOf(j) : j \in Blocks }
              = { [t |-> "GEAR", n |-> n] : n \in 1..inp.N.v }
    /\ inp.type = "rack" => Cardinality(Blocks) = 1

ZoomStep == ZoomIn \/ ZoomOut \/ \E deltaY \in {-1, 0, 1} : Wheel(deltaY)
PointerDownStep == \E spot \in PointerSpots : PointerDown(spot)
PointerMoveStep == \E spot \in PointerSpots : PointerMove(spot)

\* while autoFit is set the camera is the fitted one
C14_Fitted ==
  autoFit => camera.x = 0 /\ camera.y = 0 /\ camera.k \in FitMin..FitMax
C14_Step ==
  /\ autoFit' => \/ ZoomReset
                 \/ autoFit /\ ~PointerDownStep /\ ~ZoomStep
  /\ ~autoFit' => \/ camera' = camera
                  \/ PointerMoveStep /\ camera'.k = camera.k
                  \/ ZoomStep /\ camera'.x = camera.x /\ camera'.y = camera.y

\* C14: autoFit is set only at the start and after a zoom reset that no
\* pointerdown, wheel or zoom button event has followed; an update() run
\* with autoFit clear leaves the camera as its handler set it (x, y and k
\* untouched), and one run with autoFit set leaves x = y = 0 and k within
\* 0.05 .. 50.
C14_AutoFitDiscipline == []C14_Fitted /\ [][C14_Step]_vars

\* a zoom reset after a zoom: the camera is fitted again, here at the cap 50
C14_Witness ==
  /\ autoFit /\ zooms > 0
  /\ camera = [x |-> 0, y |-> 0, k |-> FitMax]
  /\ inp.type = "rack"

C15_Range ==
  /\ camera.k \in FitMin..FitMax
  /\ isPanning <=> ~panStart.null
C15_Step == ZoomStep => camera'.k \in ZoomMin..ZoomMax

\* C15: in every state camera.k lies within 0.05 .. 50 and isPanning holds
\* exactly when panStart is not null; right after a wheel or zoom button
\* event camera.k lies within 0.3 .. 20.
C15_ZoomRange == []C15_Range /\ [][C15_Step]_vars

\* a zoom in from the fitted 50 during a drag: the zoom is cut to 20
C15_Witness ==
  /\ zooms > 0 /\ ~autoFit
  /\ camera.k = ZoomMax
  /\ isPanning /\ ~panStart.null

==========================================================================
